---- MODULE Spec2Model ----
(***************************************************************************)
(* State-machine model of greedy-dhcp (src/main.go): main() selects a      *)
(* network interface, reads TARGET_ADDRS, spawns one runClient goroutine   *)
(* per target address, serves the metrics endpoint, waits for a signal or  *)
(* for the metrics server to fail, cancels the shared context and waits    *)
(* for every runClient goroutine.                                          *)
(*                                                                         *)
(* Strings are sequences of one-character strings, so that strings.Split   *)
(* is computed and not assumed.  A metric vector is a function from label  *)
(* values to numbers whose domain is the set of series that exist.         *)
(***************************************************************************)
EXTENDS Integers, Sequences, FiniteSets, TLC

\* ---------------------------------------------------------------- bounds
\* Longest TARGET_ADDRS value (in characters).
MaxLen == 3
\* Longest list net.Interfaces() returns.
MaxIfaces == 2
\* Callbacks the protocol clients deliver in one run (all sessions together).
MaxCallbacks == 2

\* ------------------------------------------------------------- constants
Comma == ","
Chars == {"a", "b", Comma}
\* Capacity of the signal channel c.
SigChanCap == 1
Signals == {"SIGINT", "SIGTERM"}
Nil == "nil"

\* ----------------------------------------------------------- value sets
RECURSIVE SeqsUpTo(_, _)
SeqsUpTo(S, n) ==
  IF n = 0 THEN {<<>>}
  ELSE LET shorter == SeqsUpTo(S, n - 1)
       IN  shorter \cup {Append(q, x) : q \in {r \in shorter : Len(r) = n - 1}, x \in S}

Strings == SeqsUpTo(Chars, MaxLen)

\* A net.Interface as getInterface reads it: the two flags and the outcome of
\* iface.Addrs() (an error, no address, at least one address).
Interface == [up : BOOLEAN, loopback : BOOLEAN, addrs : {"err", "none", "some"}]
InterfaceLists == SeqsUpTo(Interface, MaxIfaces)
\* What net.Interfaces() returns: the list and the error.
Enumerations ==
  {[list |-> l, err |-> Nil] : l \in InterfaceLists} \cup {[list |-> <<>>, err |-> "enumeration failed"]}

\* A time.Time: whole seconds since the epoch and the nanoseconds within.
\* Two sample expiry instants an hour apart, on and off a whole second.
Instants == [sec : {100000, 103600}, nsec : {0, 500000000}]
\* A dhclient.Lease as the callbacks read it.
Leases == [Expire : Instants]
\* A *dhclient.Lease: <<>> is the nil pointer, <<l>> points to lease l.
NilLease == <<>>
LeasePtrs == {NilLease} \cup {<<l>> : l \in Leases}

\* time.Time.Unix(): the whole seconds, the nanoseconds are dropped.
Unix(t) == t.sec

VARIABLES
  mainpc,           \* position of main()
  exitCode,         \* exit status of the process once mainpc = "exited"
  interfaces,       \* what net.Interfaces() returned to getInterface, and
  iface,            \* what getInterface returned, [iface, err], both until
                    \* main has read the result (lines 142-147); nothing reads
                    \* them later
  targetAddrsStr,   \* os.Getenv("TARGET_ADDRS")
  targetAddrs,      \* strings.Split(targetAddrsStr, ",")
  idx,              \* position of the range loop over targetAddrs
  wg,               \* counter of the sync.WaitGroup
  ctxDone,          \* the shared context has been cancelled
  trigger,          \* the select case main took
  sigChan,          \* channel c (buffered, capacity 1)
  metricChan,       \* "open" or "closed"
  metricsPc,        \* position of the metrics goroutine
  spc,              \* position of each runClient goroutine, in spawn order
  target,           \* targetAddr argument of each runClient goroutine
  startCalls,       \* client.Start() calls per session
  stopCalls,        \* client.Stop() calls per session
  hung,             \* the session's client.Stop() never returns
  dhcpAcquiredLeasesTotal,
  dhcpExpiredLeasesTotal,
  dhcpFailedLeasesTotal,
  dhcpLeaseExpiryTimestampSeconds,
  writers,          \* per label value: the sessions that wrote one of its series
  callbacks,        \* callbacks delivered so far
  cancelCalls,      \* cancel() calls made by main
  lastBound,        \* per label value: Expire.Unix() of the lease of the last
                    \* on-bound callback delivered to a session of that target
  delivered         \* per label value: the callbacks delivered so far to the
                    \* sessions of that target, by kind

metrics == <<dhcpAcquiredLeasesTotal, dhcpExpiredLeasesTotal,
             dhcpFailedLeasesTotal, dhcpLeaseExpiryTimestampSeconds>>
mainVars == <<mainpc, exitCode, interfaces, iface, targetAddrsStr, targetAddrs,
              idx, trigger>>
envVars == <<sigChan, metricChan, metricsPc>>
sessVars == <<spc, target, startCalls, stopCalls, hung>>
histVars == <<cancelCalls, lastBound, delivered>>
vars == <<mainVars, envVars, sessVars, wg, ctxDone, metrics, writers, callbacks,
          histVars>>

Sessions == 1..Len(spc)
Alive == mainpc # "exited"

\* ------------------------------------------------------- pure functions
\* strings.Split(s, ","): the substrings between the separators, so a string
\* with n separators gives n + 1 elements, empty ones included.
RECURSIVE SplitAcc(_, _, _)
SplitAcc(s, acc, cur) ==
  IF s = <<>> THEN Append(acc, cur)
  ELSE IF Head(s) = Comma THEN SplitAcc(Tail(s), Append(acc, cur), <<>>)
  ELSE SplitAcc(Tail(s), acc, Append(cur, Head(s)))

Split(s) == SplitAcc(s, <<>>, <<>>)

\* getInterfaceFrom without the loopback test of line 58.
RECURSIVE getInterfaceFromNoLoopbackTest(_, _)
getInterfaceFromNoLoopbackTest(ifs, i) ==
  IF i > Len(ifs) THEN [iface |-> 0, err |-> "unable to find interface"]
  ELSE IF ~ifs[i].up THEN getInterfaceFromNoLoopbackTest(ifs, i + 1)
  ELSE IF ifs[i].addrs = "err" THEN [iface |-> 0, err |-> "unable to get addrs"]
  ELSE IF ifs[i].addrs = "none" THEN getInterfaceFromNoLoopbackTest(ifs, i + 1)
  ELSE [iface |-> i, err |-> Nil]

\* getInterfaceFrom with a failed iface.Addrs() treated as no address.
RECURSIVE getInterfaceFromSkipAddrsError(_, _)
getInterfaceFromSkipAddrsError(ifs, i) ==
  IF i > Len(ifs) THEN [iface |-> 0, err |-> "unable to find interface"]
  ELSE IF ~ifs[i].up \/ ifs[i].loopback THEN getInterfaceFromSkipAddrsError(ifs, i + 1)
  ELSE IF ifs[i].addrs # "some" THEN getInterfaceFromSkipAddrsError(ifs, i + 1)
  ELSE [iface |-> i, err |-> Nil]

\* getInterface, from position i of the enumeration on.
RECURSIVE getInterfaceFrom(_, _)
getInterfaceFrom(ifs, i) ==
  IF i > Len(ifs) THEN [iface |-> 0, err |-> "unable to find interface"]
  ELSE IF ~ifs[i].up \/ ifs[i].loopback THEN getInterfaceFrom(ifs, i + 1)
  ELSE IF ifs[i].addrs = "err" THEN [iface |-> 0, err |-> "unable to get addrs"]
  ELSE IF ifs[i].addrs = "none" THEN getInterfaceFrom(ifs, i + 1)
  ELSE [iface |-> i, err |-> Nil]

getInterface(enum) ==
  IF enum.err # Nil THEN [iface |-> 0, err |-> enum.err]
  ELSE getInterfaceFrom(enum.list, 1)

\* vec.WithLabelValues(l): the series of label value l, created at 0 if absent.
WithLabelValues(vec, l) == IF l \in DOMAIN vec THEN vec ELSE vec @@ (l :> 0)
\* vec.WithLabelValues(l).Add(n) on a counter, .Set(v) on a gauge.
Add(vec, l, n) == [WithLabelValues(vec, l) EXCEPT ![l] = @ + n]
Set(vec, l, v) == [WithLabelValues(vec, l) EXCEPT ![l] = v]
\* Session s has written a series of label value l.
Wrote(l, s) ==
  IF l \in DOMAIN writers THEN [writers EXCEPT ![l] = @ \cup {s}]
  ELSE writers @@ (l :> {s})

\* A callback of kind k ("bound", "expired", "failed") was delivered to a
\* session of target l.
NoneDelivered == [bound |-> 0, expired |-> 0, failed |-> 0]
Delivered(l, k) ==
  LET old == IF l \in DOMAIN delivered THEN delivered[l] ELSE NoneDelivered
      new == [old EXCEPT ![k] = @ + 1]
  IN  IF l \in DOMAIN delivered THEN [delivered EXCEPT ![l] = new]
      ELSE delivered @@ (l :> new)
\* The kind of an on-expire callback: a failed acquisition has no lease.
ExpireKind(lease) == IF lease = NilLease THEN "failed" ELSE "expired"

\* os.Exit(code), and main returning (code 0): the process and all its
\* goroutines are gone.
Exit(code) == mainpc' = "exited" /\ exitCode' = code

Init ==
  /\ mainpc = "getInterface"
  /\ exitCode = -1
  /\ interfaces = [list |-> <<>>, err |-> Nil]
  /\ iface = [iface |-> 0, err |-> Nil]
  /\ targetAddrsStr = <<>>
  /\ targetAddrs = <<>>
  /\ idx = 0
  /\ wg = 0
  /\ ctxDone = FALSE
  /\ trigger = "none"
  /\ sigChan = <<>>
  /\ metricChan = "none"
  /\ metricsPc = "none"
  /\ spc = <<>>
  /\ target = <<>>
  /\ startCalls = <<>>
  /\ stopCalls = <<>>
  /\ hung = <<>>
  /\ dhcpAcquiredLeasesTotal = <<>>
  /\ dhcpExpiredLeasesTotal = <<>>
  /\ dhcpFailedLeasesTotal = <<>>
  /\ dhcpLeaseExpiryTimestampSeconds = <<>>
  /\ writers = <<>>
  /\ callbacks = 0
  /\ cancelCalls = 0
  /\ lastBound = <<>>
  /\ delivered = <<>>

\* ------------------------------------------------------------- main()
\* getInterface line 52: net.Interfaces().
GetInterfaceEnumerate ==
  /\ mainpc = "getInterface"
  /\ \E enum \in Enumerations : interfaces' = enum
  /\ mainpc' = "getInterfaceLoop"
  /\ UNCHANGED <<exitCode, iface, targetAddrsStr, targetAddrs, idx, trigger,
                 envVars, sessVars, wg, ctxDone, metrics, writers, callbacks, histVars>>

\* getInterface lines 53-74, returning to main line 141.
GetInterfaceReturn ==
  /\ mainpc = "getInterfaceLoop"
  /\ iface' = getInterface(interfaces)
  /\ mainpc' = "checkInterface"
  /\ UNCHANGED <<exitCode, interfaces, targetAddrsStr, targetAddrs, idx, trigger,
                 envVars, sessVars, wg, ctxDone, metrics, writers, callbacks, histVars>>

\* main lines 142-145.
MainInterfaceFatal ==
  /\ mainpc = "checkInterface"
  /\ iface.err # Nil
  /\ Exit(1)
  /\ UNCHANGED <<interfaces, iface, targetAddrsStr, targetAddrs, idx, trigger,
                 envVars, sessVars, wg, ctxDone, metrics, writers, callbacks, histVars>>

\* main lines 147-149: the interface is logged, then the environment's
\* TARGET_ADDRS is read (unset reads as "").
MainGetenv ==
  /\ mainpc = "checkInterface"
  /\ iface.err = Nil
  /\ iface' = [iface |-> 0, err |-> Nil]
  /\ interfaces' = [list |-> <<>>, err |-> Nil]
  /\ \E s \in Strings : targetAddrsStr' = s
  /\ mainpc' = "checkTargets"
  /\ UNCHANGED <<exitCode, targetAddrs, idx, trigger,
                 envVars, sessVars, wg, ctxDone, metrics, writers, callbacks, histVars>>

\* main lines 150-153.
MainTargetsUnset ==
  /\ mainpc = "checkTargets"
  /\ targetAddrsStr = <<>>
  /\ Exit(1)
  /\ UNCHANGED <<interfaces, iface, targetAddrsStr, targetAddrs, idx, trigger,
                 envVars, sessVars, wg, ctxDone, metrics, writers, callbacks, histVars>>

\* main lines 155-160: the wait group, the context, the split list.
MainSplit ==
  /\ mainpc = "checkTargets"
  /\ targetAddrsStr # <<>>
  /\ targetAddrs' = Split(targetAddrsStr)
  /\ idx' = 1
  /\ wg' = 0
  /\ ctxDone' = FALSE
  /\ mainpc' = "loop"
  /\ UNCHANGED <<exitCode, interfaces, iface, targetAddrsStr, trigger,
                 envVars, sessVars, metrics, writers, callbacks, histVars>>

\* main lines 161-165: an empty element ends the process.
MainLoopEmpty ==
  /\ mainpc = "loop"
  /\ idx <= Len(targetAddrs)
  /\ targetAddrs[idx] = <<>>
  /\ Exit(1)
  /\ UNCHANGED <<interfaces, iface, targetAddrsStr, targetAddrs, idx, trigger,
                 envVars, sessVars, wg, ctxDone, metrics, writers, callbacks, histVars>>

\* MainLoopSpawn with a loop that starts one session per distinct address.
MainLoopSpawnDistinct ==
  /\ mainpc = "loop"
  /\ idx <= Len(targetAddrs)
  /\ targetAddrs[idx] # <<>>
  /\ idx' = idx + 1
  /\ IF \E s \in Sessions : target[s] = targetAddrs[idx]
     THEN UNCHANGED <<wg, sessVars>>
     ELSE /\ wg' = wg + 1
          /\ spc' = Append(spc, "acquired")
          /\ target' = Append(target, targetAddrs[idx])
          /\ startCalls' = Append(startCalls, 0)
          /\ stopCalls' = Append(stopCalls, 0)
          /\ hung' = Append(hung, FALSE)
  /\ UNCHANGED <<mainpc, exitCode, interfaces, iface, targetAddrsStr, targetAddrs,
                 trigger, envVars, ctxDone, metrics, writers, callbacks, histVars>>

\* main lines 167-170: wg.Add(1); go runClient(..., targetAddr).
MainLoopSpawn ==
  /\ mainpc = "loop"
  /\ idx <= Len(targetAddrs)
  /\ targetAddrs[idx] # <<>>
  /\ wg' = wg + 1
  /\ spc' = Append(spc, "acquired")
  /\ target' = Append(target, targetAddrs[idx])
  /\ startCalls' = Append(startCalls, 0)
  /\ stopCalls' = Append(stopCalls, 0)
  /\ hung' = Append(hung, FALSE)
  /\ idx' = idx + 1
  /\ UNCHANGED <<mainpc, exitCode, interfaces, iface, targetAddrsStr, targetAddrs,
                 trigger, envVars, ctxDone, metrics, writers, callbacks, histVars>>

\* main lines 173-181: the range loop is over; metricChan is made and the
\* goroutine running http.ListenAndServe is spawned.
MainServeMetrics ==
  /\ mainpc = "loop"
  /\ idx > Len(targetAddrs)
  /\ metricChan' = "open"
  /\ metricsPc' = "listening"
  /\ mainpc' = "notify"
  /\ UNCHANGED <<exitCode, interfaces, iface, targetAddrsStr, targetAddrs, idx,
                 trigger, sigChan, sessVars, wg, ctxDone, metrics, writers, callbacks, histVars>>

\* MainNotify without the select: main goes on to cancel() at once.
MainNotifyNoSelect ==
  /\ mainpc = "notify"
  /\ sigChan' = <<>>
  /\ mainpc' = "cancel"
  /\ UNCHANGED <<exitCode, interfaces, iface, targetAddrsStr, targetAddrs, idx,
                 trigger, metricChan, metricsPc, sessVars, wg, ctxDone, metrics,
                 writers, callbacks, histVars>>

\* main lines 183-184: c is made and signal.Notify registers it.
MainNotify ==
  /\ mainpc = "notify"
  /\ sigChan' = <<>>
  /\ mainpc' = "select"
  /\ UNCHANGED <<exitCode, interfaces, iface, targetAddrsStr, targetAddrs, idx,
                 trigger, metricChan, metricsPc, sessVars, wg, ctxDone, metrics,
                 writers, callbacks, histVars>>

\* main lines 185-188: case sig := <-c.
MainSelectSignal ==
  /\ mainpc = "select"
  /\ sigChan # <<>>
  /\ sigChan' = Tail(sigChan)
  /\ trigger' = "signal"
  /\ mainpc' = "cancel"
  /\ UNCHANGED <<exitCode, interfaces, iface, targetAddrsStr, targetAddrs, idx,
                 metricChan, metricsPc, sessVars, wg, ctxDone, metrics, writers,
                 callbacks, histVars>>

\* main lines 189-191: case <-metricChan (a receive on a closed channel).
MainSelectMetric ==
  /\ mainpc = "select"
  /\ metricChan = "closed"
  /\ trigger' = "metrics"
  /\ mainpc' = "cancel"
  /\ UNCHANGED <<exitCode, interfaces, iface, targetAddrsStr, targetAddrs, idx,
                 envVars, sessVars, wg, ctxDone, metrics, writers, callbacks, histVars>>

\* main line 194: cancel().
MainCancel ==
  /\ mainpc = "cancel"
  /\ ctxDone' = TRUE
  /\ cancelCalls' = cancelCalls + 1
  /\ mainpc' = "wait"
  /\ UNCHANGED <<exitCode, interfaces, iface, targetAddrsStr, targetAddrs, idx,
                 trigger, envVars, sessVars, wg, metrics, writers, callbacks, lastBound, delivered>>

\* MainWait without the barrier: main returns right after cancel().
MainWaitNoBarrier ==
  /\ mainpc = "wait"
  /\ Exit(0)
  /\ UNCHANGED <<interfaces, iface, targetAddrsStr, targetAddrs, idx, trigger,
                 envVars, sessVars, wg, ctxDone, metrics, writers, callbacks, histVars>>

\* main lines 195-196: wg.Wait() returns when the counter is 0, then main
\* returns and the process exits with status 0.
MainWait ==
  /\ mainpc = "wait"
  /\ wg = 0
  /\ Exit(0)
  /\ UNCHANGED <<interfaces, iface, targetAddrsStr, targetAddrs, idx, trigger,
                 envVars, sessVars, wg, ctxDone, metrics, writers, callbacks, histVars>>

\* -------------------------------------------------------- environment
\* An interrupt/terminate signal is delivered once signal.Notify (line 184) has
\* registered c; the runtime's send does not block, a signal that finds c full
\* is dropped (no state change).
SignalArrives(sig) ==
  /\ Alive
  /\ mainpc \in {"select", "cancel", "wait"}
  /\ Len(sigChan) < SigChanCap
  /\ sigChan' = Append(sigChan, sig)
  /\ UNCHANGED <<mainVars, metricChan, metricsPc, sessVars, wg, ctxDone, metrics,
                 writers, callbacks, histVars>>

\* main lines 175-181: http.ListenAndServe returns its error, the goroutine
\* closes metricChan and returns.
MetricsServerFails ==
  /\ Alive
  /\ metricsPc = "listening"
  /\ metricChan' = "closed"
  /\ metricsPc' = "returned"
  /\ UNCHANGED <<mainVars, sigChan, sessVars, wg, ctxDone, metrics, writers, callbacks, histVars>>

\* ---------------------------------------------------------- runClient
\* InitAcquired that zeroes the counter (a reset in place of Add(0)).
InitAcquiredReset(s) ==
  /\ Alive
  /\ spc[s] = "acquired"
  /\ dhcpAcquiredLeasesTotal' = Set(dhcpAcquiredLeasesTotal, target[s], 0)
  /\ writers' = Wrote(target[s], s)
  /\ spc' = [spc EXCEPT ![s] = "expiry"]
  /\ UNCHANGED <<mainVars, envVars, target, startCalls, stopCalls, hung, wg, ctxDone,
                 dhcpExpiredLeasesTotal, dhcpFailedLeasesTotal,
                 dhcpLeaseExpiryTimestampSeconds, callbacks, histVars>>

\* runClient lines 80-81: the acquired counter of the target, Add(0).
InitAcquired(s) ==
  /\ Alive
  /\ spc[s] = "acquired"
  /\ dhcpAcquiredLeasesTotal' = Add(dhcpAcquiredLeasesTotal, target[s], 0)
  /\ writers' = Wrote(target[s], s)
  /\ spc' = [spc EXCEPT ![s] = "expiry"]
  /\ UNCHANGED <<mainVars, envVars, target, startCalls, stopCalls, hung, wg, ctxDone,
                 dhcpExpiredLeasesTotal, dhcpFailedLeasesTotal,
                 dhcpLeaseExpiryTimestampSeconds, callbacks, histVars>>

\* runClient lines 82-83: the expiry gauge of the target, Set(0).
InitExpiry(s) ==
  /\ Alive
  /\ spc[s] = "expiry"
  /\ dhcpLeaseExpiryTimestampSeconds' = Set(dhcpLeaseExpiryTimestampSeconds, target[s], 0)
  /\ writers' = Wrote(target[s], s)
  /\ spc' = [spc EXCEPT ![s] = "failed"]
  /\ UNCHANGED <<mainVars, envVars, target, startCalls, stopCalls, hung, wg, ctxDone,
                 dhcpAcquiredLeasesTotal, dhcpExpiredLeasesTotal, dhcpFailedLeasesTotal,
                 callbacks, histVars>>

\* runClient lines 84-85: the failed counter of the target, Add(0).
InitFailed(s) ==
  /\ Alive
  /\ spc[s] = "failed"
  /\ dhcpFailedLeasesTotal' = Add(dhcpFailedLeasesTotal, target[s], 0)
  /\ writers' = Wrote(target[s], s)
  /\ spc' = [spc EXCEPT ![s] = "expired"]
  /\ UNCHANGED <<mainVars, envVars, target, startCalls, stopCalls, hung, wg, ctxDone,
                 dhcpAcquiredLeasesTotal, dhcpExpiredLeasesTotal,
                 dhcpLeaseExpiryTimestampSeconds, callbacks, histVars>>

\* runClient lines 86-87: the expired counter of the target, Add(0).
InitExpired(s) ==
  /\ Alive
  /\ spc[s] = "expired"
  /\ dhcpExpiredLeasesTotal' = Add(dhcpExpiredLeasesTotal, target[s], 0)
  /\ writers' = Wrote(target[s], s)
  /\ spc' = [spc EXCEPT ![s] = "start"]
  /\ UNCHANGED <<mainVars, envVars, target, startCalls, stopCalls, hung, wg, ctxDone,
                 dhcpAcquiredLeasesTotal, dhcpFailedLeasesTotal,
                 dhcpLeaseExpiryTimestampSeconds, callbacks, histVars>>

\* ClientStart with an early return when the context is already cancelled:
\* the client is neither started nor stopped.
ClientStartUnlessCancelled(s) ==
  /\ Alive
  /\ spc[s] = "start"
  /\ IF ctxDone
     THEN /\ spc' = [spc EXCEPT ![s] = "stopped"]
          /\ UNCHANGED startCalls
     ELSE /\ startCalls' = [startCalls EXCEPT ![s] = @ + 1]
          /\ spc' = [spc EXCEPT ![s] = "wait"]
  /\ UNCHANGED <<mainVars, envVars, target, stopCalls, hung, wg, ctxDone, metrics,
                 writers, callbacks, histVars>>

\* runClient lines 89-128: the client is built and started, the deferred stop
\* is registered, and the goroutine blocks on ctx.Done() (line 130).
ClientStart(s) ==
  /\ Alive
  /\ spc[s] = "start"
  /\ startCalls' = [startCalls EXCEPT ![s] = @ + 1]
  /\ spc' = [spc EXCEPT ![s] = "wait"]
  /\ UNCHANGED <<mainVars, envVars, target, stopCalls, hung, wg, ctxDone, metrics,
                 writers, callbacks, histVars>>

\* AwaitCancel with the deferred stop registered after the wait on ctx.Done()
\* returned with an early return in between: the client is never stopped.
AwaitCancelNoStop(s) ==
  /\ Alive
  /\ spc[s] = "wait"
  /\ ctxDone
  /\ spc' = [spc EXCEPT ![s] = "stopped"]
  /\ UNCHANGED <<mainVars, envVars, target, startCalls, stopCalls, hung, wg, ctxDone,
                 metrics, writers, callbacks, histVars>>

\* runClient lines 130, 125-127: the receive on ctx.Done() returns once the
\* context is cancelled; the function returns and its deferred closure calls
\* client.Stop().  Whether that call ever returns is the client's choice.
AwaitCancel(s) ==
  /\ Alive
  /\ spc[s] = "wait"
  /\ ctxDone
  /\ stopCalls' = [stopCalls EXCEPT ![s] = @ + 1]
  /\ \E h \in BOOLEAN : hung' = [hung EXCEPT ![s] = h]
  /\ spc' = [spc EXCEPT ![s] = "stopping"]
  /\ UNCHANGED <<mainVars, envVars, target, startCalls, wg, ctxDone, metrics,
                 writers, callbacks, histVars>>

\* runClient line 127: client.Stop() returns.
ClientStopReturns(s) ==
  /\ Alive
  /\ spc[s] = "stopping"
  /\ ~hung[s]
  /\ spc' = [spc EXCEPT ![s] = "stopped"]
  /\ UNCHANGED <<mainVars, envVars, target, startCalls, stopCalls, hung, wg, ctxDone,
                 metrics, writers, callbacks, histVars>>

\* WgDone with the two defers in the other order: wg.Done() runs as soon as
\* client.Stop() has been called, not when it has returned.
WgDoneBeforeStop(s) ==
  /\ Alive
  /\ spc[s] = "stopping"
  /\ wg' = wg - 1
  /\ spc' = [spc EXCEPT ![s] = "returned"]
  /\ UNCHANGED <<mainVars, envVars, target, startCalls, stopCalls, hung, ctxDone,
                 metrics, writers, callbacks, histVars>>

\* runClient line 78: the deferred wg.Done(), the goroutine is over.
WgDone(s) ==
  /\ Alive
  /\ spc[s] = "stopped"
  /\ wg' = wg - 1
  /\ spc' = [spc EXCEPT ![s] = "returned"]
  /\ UNCHANGED <<mainVars, envVars, target, startCalls, stopCalls, hung, ctxDone,
                 metrics, writers, callbacks, histVars>>

\* The client of session s is between Start() and the return of Stop(): the
\* only time it delivers callbacks.
ClientRunning(s) == spc[s] \in {"wait", "stopping"}

\* OnBound with the gauge advanced by the expiry instant (Add for Set).
OnBoundAccumulate(s, lease) ==
  /\ Alive
  /\ ClientRunning(s)
  /\ callbacks < MaxCallbacks
  /\ callbacks' = callbacks + 1
  /\ lastBound' = Set(lastBound, target[s], Unix(lease.Expire))
  /\ delivered' = Delivered(target[s], "bound")
  /\ UNCHANGED cancelCalls
  /\ dhcpAcquiredLeasesTotal' = Add(dhcpAcquiredLeasesTotal, target[s], 1)
  /\ dhcpLeaseExpiryTimestampSeconds' =
       Add(dhcpLeaseExpiryTimestampSeconds, target[s], Unix(lease.Expire))
  /\ writers' = Wrote(target[s], s)
  /\ UNCHANGED <<mainVars, envVars, sessVars, wg, ctxDone, dhcpExpiredLeasesTotal,
                 dhcpFailedLeasesTotal>>

\* runClient lines 95-99: OnBound(lease).
OnBound(s, lease) ==
  /\ Alive
  /\ ClientRunning(s)
  /\ callbacks < MaxCallbacks
  /\ callbacks' = callbacks + 1
  /\ lastBound' = Set(lastBound, target[s], Unix(lease.Expire))
  /\ delivered' = Delivered(target[s], "bound")
  /\ UNCHANGED cancelCalls
  /\ dhcpAcquiredLeasesTotal' = Add(dhcpAcquiredLeasesTotal, target[s], 1)
  /\ dhcpLeaseExpiryTimestampSeconds' =
       Set(dhcpLeaseExpiryTimestampSeconds, target[s], Unix(lease.Expire))
  /\ writers' = Wrote(target[s], s)
  /\ UNCHANGED <<mainVars, envVars, sessVars, wg, ctxDone, dhcpExpiredLeasesTotal,
                 dhcpFailedLeasesTotal>>

\* OnExpire that treats a failed acquisition as fatal (os.Exit(1) after the
\* counter).
OnExpireFatal(s, lease) ==
  /\ Alive
  /\ ClientRunning(s)
  /\ callbacks < MaxCallbacks
  /\ callbacks' = callbacks + 1
  /\ delivered' = Delivered(target[s], ExpireKind(lease))
  /\ UNCHANGED <<cancelCalls, lastBound>>
  /\ IF lease = NilLease
     THEN /\ dhcpFailedLeasesTotal' = Add(dhcpFailedLeasesTotal, target[s], 1)
          /\ Exit(1)
          /\ UNCHANGED dhcpExpiredLeasesTotal
     ELSE /\ dhcpExpiredLeasesTotal' = Add(dhcpExpiredLeasesTotal, target[s], 1)
          /\ UNCHANGED <<dhcpFailedLeasesTotal, mainpc, exitCode>>
  /\ writers' = Wrote(target[s], s)
  /\ UNCHANGED <<interfaces, iface, targetAddrsStr, targetAddrs, idx, trigger,
                 envVars, sessVars, wg, ctxDone, dhcpAcquiredLeasesTotal,
                 dhcpLeaseExpiryTimestampSeconds>>

\* OnExpire without the nil test: every expiry counts as an expired lease.
OnExpireNoNilTest(s, lease) ==
  /\ Alive
  /\ ClientRunning(s)
  /\ callbacks < MaxCallbacks
  /\ callbacks' = callbacks + 1
  /\ delivered' = Delivered(target[s], ExpireKind(lease))
  /\ UNCHANGED <<cancelCalls, lastBound>>
  /\ dhcpExpiredLeasesTotal' = Add(dhcpExpiredLeasesTotal, target[s], 1)
  /\ writers' = Wrote(target[s], s)
  /\ UNCHANGED <<mainVars, envVars, sessVars, wg, ctxDone, dhcpAcquiredLeasesTotal,
                 dhcpFailedLeasesTotal, dhcpLeaseExpiryTimestampSeconds>>

\* OnExpire that also clears the expiry gauge when a lease expired.
OnExpireResetGauge(s, lease) ==
  /\ Alive
  /\ ClientRunning(s)
  /\ callbacks < MaxCallbacks
  /\ callbacks' = callbacks + 1
  /\ delivered' = Delivered(target[s], ExpireKind(lease))
  /\ UNCHANGED <<cancelCalls, lastBound>>
  /\ IF lease = NilLease
     THEN /\ dhcpFailedLeasesTotal' = Add(dhcpFailedLeasesTotal, target[s], 1)
          /\ UNCHANGED <<dhcpExpiredLeasesTotal, dhcpLeaseExpiryTimestampSeconds>>
     ELSE /\ dhcpExpiredLeasesTotal' = Add(dhcpExpiredLeasesTotal, target[s], 1)
          /\ dhcpLeaseExpiryTimestampSeconds' =
               Set(dhcpLeaseExpiryTimestampSeconds, target[s], 0)
          /\ UNCHANGED dhcpFailedLeasesTotal
  /\ writers' = Wrote(target[s], s)
  /\ UNCHANGED <<mainVars, envVars, sessVars, wg, ctxDone, dhcpAcquiredLeasesTotal>>

\* runClient lines 100-109: OnExpire(lease), lease = nil after a failed
\* acquisition.
OnExpire(s, lease) ==
  /\ Alive
  /\ ClientRunning(s)
  /\ callbacks < MaxCallbacks
  /\ callbacks' = callbacks + 1
  /\ delivered' = Delivered(target[s], ExpireKind(lease))
  /\ UNCHANGED <<cancelCalls, lastBound>>
  /\ IF lease = NilLease
     THEN /\ dhcpFailedLeasesTotal' = Add(dhcpFailedLeasesTotal, target[s], 1)
          /\ UNCHANGED dhcpExpiredLeasesTotal
     ELSE /\ dhcpExpiredLeasesTotal' = Add(dhcpExpiredLeasesTotal, target[s], 1)
          /\ UNCHANGED dhcpFailedLeasesTotal
  /\ writers' = Wrote(target[s], s)
  /\ UNCHANGED <<mainVars, envVars, sessVars, wg, ctxDone, dhcpAcquiredLeasesTotal,
                 dhcpLeaseExpiryTimestampSeconds>>

\* ------------------------------------------------------ specification
Next ==
  \/ GetInterfaceEnumerate
  \/ GetInterfaceReturn
  \/ MainInterfaceFatal
  \/ MainGetenv
  \/ MainTargetsUnset
  \/ MainSplit
  \/ MainLoopEmpty
  \/ MainLoopSpawn
  \/ MainServeMetrics
  \/ MainNotify
  \/ MainSelectSignal
  \/ MainSelectMetric
  \/ MainCancel
  \/ MainWait
  \/ \E sig \in Signals : SignalArrives(sig)
  \/ MetricsServerFails
  \/ \E s \in Sessions : InitAcquired(s)
  \/ \E s \in Sessions : InitExpiry(s)
  \/ \E s \in Sessions : InitFailed(s)
  \/ \E s \in Sessions : InitExpired(s)
  \/ \E s \in Sessions : ClientStart(s)
  \/ \E s \in Sessions : AwaitCancel(s)
  \/ \E s \in Sessions : ClientStopReturns(s)
  \/ \E s \in Sessions : WgDone(s)
  \/ \E s \in Sessions, lease \in Leases : OnBound(s, lease)
  \/ \E s \in Sessions, lease \in LeasePtrs : OnExpire(s, lease)

Spec == Init /\ [][Next]_vars

\* The scheduler runs every runnable goroutine: main and each runClient
\* goroutine keep taking their steps while one is enabled.  A client.Stop()
\* that does not hang returns.  Signals, the failure of the metrics server and
\* the callbacks are the environment's, and owe nothing.
MaxSessions == (MaxLen + 1) \div 2

MainStep ==
  \/ GetInterfaceEnumerate \/ GetInterfaceReturn \/ MainInterfaceFatal
  \/ MainGetenv \/ MainTargetsUnset \/ MainSplit \/ MainLoopEmpty
  \/ MainLoopSpawn \/ MainServeMetrics \/ MainNotify \/ MainSelectSignal
  \/ MainSelectMetric \/ MainCancel \/ MainWait

SessionStep(s) ==
  /\ s \in Sessions
  /\ \/ InitAcquired(s) \/ InitExpiry(s) \/ InitFailed(s) \/ InitExpired(s)
     \/ ClientStart(s) \/ AwaitCancel(s) \/ ClientStopReturns(s) \/ WgDone(s)

FairSpec ==
  /\ Spec
  /\ WF_vars(MainStep)
  /\ \A s \in 1..MaxSessions : WF_vars(SessionStep(s))

\* ------------------------------------------------------------- claims
Series == UNION {DOMAIN dhcpAcquiredLeasesTotal, DOMAIN dhcpExpiredLeasesTotal,
                 DOMAIN dhcpFailedLeasesTotal, DOMAIN dhcpLeaseExpiryTimestampSeconds}
\* The range loop of main is over, by running out of elements or by os.Exit.
LoopEnded ==
  \/ mainpc \in {"notify", "select", "cancel", "wait"}
  \/ mainpc = "exited" /\ targetAddrs # <<>>
AllNonEmpty == \A i \in 1..Len(targetAddrs) : targetAddrs[i] # <<>>
SomeNonEmpty == \E i \in 1..Len(targetAddrs) : targetAddrs[i] # <<>>

\* C1: when the process exits on a fatal startup failure (status 1: no
\* interface, TARGET_ADDRS empty, an empty element anywhere in the list), no
\* session has been started and no metric series exists.
C1_FatalBeforeAnySession ==
  (mainpc = "exited" /\ exitCode = 1) => (Len(spc) = 0 /\ Series = {})

\* C2: the process never exits while a started session is still running: at
\* exit every started session has stopped its client and called wg.Done().
C2_ExitAfterAllSessions ==
  mainpc = "exited" => \A s \in Sessions : spc[s] = "returned"

\* C3: no session ever calls client.Stop() twice, and once the context is
\* cancelled every started session, wherever its goroutine was at that moment,
\* comes to call client.Stop() (so exactly once).
C3_StopExactlyOnce ==
  /\ [](\A s \in Sessions : stopCalls[s] <= 1)
  /\ (ctxDone ~> (\A s \in Sessions : stopCalls[s] = 1))

\* The context is cancelled, one session has already called Stop() and
\* another has not yet run its first statement.
C3_Witness ==
  /\ ctxDone
  /\ \E s \in Sessions : stopCalls[s] = 1 /\ startCalls[s] = 1
  /\ \E s \in Sessions : spc[s] = "acquired" /\ stopCalls[s] = 0

\* C4: a shutdown triggered by the metrics server terminating ends with a
\* non-zero exit status.
C4_MetricsFailureExitsNonZero ==
  (mainpc = "exited" /\ trigger = "metrics") => exitCode # 0

\* C5: once a signal has been delivered to the running process, the process
\* comes to exit with status 0 with every session returned, unless some
\* client's Stop() hangs; and while a client's Stop() hangs the process does
\* not exit.
C5_GracefulShutdown ==
  /\ (sigChan # <<>>) ~>
        \/ mainpc = "exited" /\ exitCode = 0 /\ \A s \in Sessions : spc[s] = "returned"
        \/ \E s \in Sessions : hung[s]
  /\ []((\E s \in Sessions : hung[s]) => mainpc # "exited")

C5_Witness ==
  /\ mainpc = "exited"
  /\ exitCode = 0
  /\ trigger = "signal"
  /\ Len(spc) = 2
  /\ \A s \in Sessions : spc[s] = "returned" /\ ~hung[s]

\* C6 as stated: for every list with at least one non-empty element, the
\* number of sessions started equals the number of elements of the split list.
C6_Original ==
  (LoopEnded /\ SomeNonEmpty) => Len(spc) = Len(targetAddrs)

\* C6 amended: sessions are started in list order, one per element, and for
\* every list whose elements are all non-empty the number of sessions started
\* equals the number of elements, a repeated address counting once per occurrence.
C6_SessionPerElement ==
  /\ Len(spc) <= Len(targetAddrs)
  /\ \A s \in Sessions : target[s] = targetAddrs[s]
  /\ (LoopEnded /\ AllNonEmpty) => Len(spc) = Len(targetAddrs)

C6_Witness ==
  /\ LoopEnded
  /\ targetAddrs = << <<"a">>, <<"a">> >>
  /\ target = targetAddrs

\* C7: an on-bound callback with lease L adds exactly 1 to the acquired counter
\* of the session's target, sets its expiry gauge to L.Expire.Unix() whatever
\* the gauge was, and leaves the expired and failed counters alone.
C7_OnBound ==
  [][\A s \in Sessions : \A lease \in Leases :
       OnBound(s, lease) =>
         /\ dhcpAcquiredLeasesTotal' =
              [dhcpAcquiredLeasesTotal EXCEPT ![target[s]] = @ + 1]
         /\ dhcpLeaseExpiryTimestampSeconds' =
              [dhcpLeaseExpiryTimestampSeconds EXCEPT ![target[s]] = lease.Expire.sec]
         /\ dhcpExpiredLeasesTotal' = dhcpExpiredLeasesTotal
         /\ dhcpFailedLeasesTotal' = dhcpFailedLeasesTotal]_vars

\* Two bound callbacks for one target, the second with the earlier expiry.
C7_Witness ==
  \E l \in DOMAIN dhcpAcquiredLeasesTotal :
    /\ Cardinality(writers[l]) = 1
    /\ dhcpAcquiredLeasesTotal[l] = 2
    /\ dhcpLeaseExpiryTimestampSeconds[l] = 100000

\* C8: an on-expire callback with a nil lease adds exactly 1 to the failed
\* counter of the session's target and changes no other metric.
C8_OnExpireNil ==
  [][\A s \in Sessions :
       OnExpire(s, NilLease) =>
         /\ dhcpFailedLeasesTotal' =
              [dhcpFailedLeasesTotal EXCEPT ![target[s]] = @ + 1]
         /\ dhcpAcquiredLeasesTotal' = dhcpAcquiredLeasesTotal
         /\ dhcpExpiredLeasesTotal' = dhcpExpiredLeasesTotal
         /\ dhcpLeaseExpiryTimestampSeconds' = dhcpLeaseExpiryTimestampSeconds]_vars

C8_Witness ==
  \E l \in DOMAIN dhcpFailedLeasesTotal :
    /\ dhcpFailedLeasesTotal[l] = 1
    /\ l \in DOMAIN dhcpExpiredLeasesTotal /\ dhcpExpiredLeasesTotal[l] = 0
    /\ dhcpAcquiredLeasesTotal[l] = 1
    /\ dhcpLeaseExpiryTimestampSeconds[l] # 0

\* C9: an on-expire callback with a lease adds exactly 1 to the expired counter
\* of the session's target and changes no other metric: the gauge keeps the
\* expiry instant of the lease that expired.
C9_OnExpireLease ==
  [][\A s \in Sessions : \A lease \in LeasePtrs \ {NilLease} :
       OnExpire(s, lease) =>
         /\ dhcpExpiredLeasesTotal' =
              [dhcpExpiredLeasesTotal EXCEPT ![target[s]] = @ + 1]
         /\ dhcpFailedLeasesTotal' = dhcpFailedLeasesTotal
         /\ dhcpAcquiredLeasesTotal' = dhcpAcquiredLeasesTotal
         /\ dhcpLeaseExpiryTimestampSeconds' = dhcpLeaseExpiryTimestampSeconds]_vars

C9_Witness ==
  \E l \in DOMAIN dhcpExpiredLeasesTotal :
    /\ dhcpExpiredLeasesTotal[l] = 1
    /\ dhcpFailedLeasesTotal[l] = 0
    /\ dhcpAcquiredLeasesTotal[l] = 1
    /\ dhcpLeaseExpiryTimestampSeconds[l] # 0

\* C10: every metric series is written by one session only, whatever the
\* configured list, a list that repeats an address included.
C10_SingleWriter ==
  \A l \in DOMAIN writers : Cardinality(writers[l]) <= 1

\* The four series of label value l exist.
SeriesExist(l) ==
  /\ l \in DOMAIN dhcpAcquiredLeasesTotal
  /\ l \in DOMAIN dhcpLeaseExpiryTimestampSeconds
  /\ l \in DOMAIN dhcpFailedLeasesTotal
  /\ l \in DOMAIN dhcpExpiredLeasesTotal

\* C11: a session that is about to start its protocol client finds the four
\* series of its target in existence, each with value 0.
C11_ZeroBeforeStart ==
  \A s \in Sessions :
    spc[s] = "start" =>
      /\ SeriesExist(target[s])
      /\ dhcpAcquiredLeasesTotal[target[s]] = 0
      /\ dhcpLeaseExpiryTimestampSeconds[target[s]] = 0
      /\ dhcpFailedLeasesTotal[target[s]] = 0
      /\ dhcpExpiredLeasesTotal[target[s]] = 0

\* C12: cancel() is called at most once, never before main has taken a
\* shutdown trigger (a received signal or the closed metricChan), and exactly
\* once by the time main waits for the sessions or has returned; no session
\* calls client.Stop() before that, and a signal that arrives after the first
\* stays in the channel without a second cancellation.
C12_CancelOnce ==
  /\ cancelCalls <= 1
  /\ ctxDone <=> cancelCalls = 1
  /\ cancelCalls = 1 => trigger \in {"signal", "metrics"}
  /\ trigger = "metrics" => metricChan = "closed"
  /\ (mainpc = "wait" \/ (mainpc = "exited" /\ exitCode = 0)) => cancelCalls = 1
  /\ \A s \in Sessions : stopCalls[s] > 0 => (cancelCalls = 1 /\ trigger # "none")

\* A second signal arrived after the first was received; the run ended with
\* one cancellation.
C12_Witness ==
  /\ mainpc = "exited"
  /\ trigger = "signal"
  /\ sigChan # <<>>
  /\ cancelCalls = 1
  /\ \E s \in Sessions : stopCalls[s] = 1

\* An interface qualifies: administratively up, not loopback, with an address.
Qualifies(f) == f.up /\ ~f.loopback /\ f.addrs = "some"
\* The position of the first qualifying interface of a list, 0 if there is none.
FirstQualifying(list) ==
  IF \E i \in 1..Len(list) : Qualifies(list[i])
  THEN CHOOSE i \in 1..Len(list) :
         Qualifies(list[i]) /\ \A j \in 1..(i - 1) : ~Qualifies(list[j])
  ELSE 0
\* The address query of an up, non-loopback interface fails at a position
\* before position limit.
AddrsFailBefore(list, limit) ==
  \E i \in 1..Len(list) :
    i < limit /\ list[i].up /\ ~list[i].loopback /\ list[i].addrs = "err"
\* getInterface has returned and main has not yet gone past its result.
Returned == mainpc = "checkInterface" \/ (mainpc = "exited" /\ targetAddrs = <<>> /\ targetAddrsStr = <<>> /\ iface.err # Nil)

\* C13 as stated: getInterface returns the first interface that is up, not
\* loopback and has an address, and an error exactly when the enumeration
\* fails or no interface qualifies.
C13_Original ==
  mainpc = "checkInterface" =>
    IF interfaces.err # Nil \/ FirstQualifying(interfaces.list) = 0
    THEN iface.iface = 0 /\ iface.err # Nil
    ELSE iface = [iface |-> FirstQualifying(interfaces.list), err |-> Nil]

\* C13 amended: the same, except that a failed address query of an up,
\* non-loopback interface standing before the first qualifying one makes
\* getInterface return an error; what it returns always passes both filters.
C13_FirstQualifying ==
  mainpc = "checkInterface" =>
    LET list == interfaces.list
        fq == FirstQualifying(list)
    IN  /\ IF \/ interfaces.err # Nil
              \/ fq = 0
              \/ AddrsFailBefore(list, fq)
           THEN iface.iface = 0 /\ iface.err # Nil
           ELSE iface = [iface |-> fq, err |-> Nil]
        /\ iface.iface > 0 => Qualifies(list[iface.iface])

\* The first interface is up and not loopback but has no address; the second
\* one is returned.
C13_Witness ==
  /\ mainpc = "checkInterface"
  /\ iface.iface = 2
  /\ interfaces.list[1].up /\ ~interfaces.list[1].loopback
  /\ interfaces.list[1].addrs = "none"

\* C19: when getInterface reaches an up, non-loopback interface whose address
\* query fails (every interface before it was skipped), it returns that error
\* and no interface, whatever follows in the enumeration, and main then exits
\* with status 1 without starting a session.
C19_AddrsErrorIsFatal ==
  /\ [](Returned =>
          LET list == interfaces.list
          IN  (\E k \in 1..Len(list) :
                 /\ list[k].up /\ ~list[k].loopback /\ list[k].addrs = "err"
                 /\ \A j \in 1..(k - 1) :
                      ~list[j].up \/ list[j].loopback \/ list[j].addrs = "none")
              => /\ iface = [iface |-> 0, err |-> "unable to get addrs"]
                 /\ mainpc = "exited" => (exitCode = 1 /\ Len(spc) = 0))
  /\ [][(mainpc = "checkInterface" /\ iface.err # Nil)
          => (mainpc' = "exited" /\ exitCode' = 1)]_vars

\* The address query of the first interface failed, the second interface
\* qualifies, and the process has exited with status 1.
C19_Witness ==
  /\ mainpc = "exited"
  /\ exitCode = 1
  /\ iface.err = "unable to get addrs"
  /\ Len(interfaces.list) = 2
  /\ Qualifies(interfaces.list[2])

\* C14: the wait group's counter goes down only by the step of a session whose
\* client.Stop() has been called once and has returned, and a session that
\* has reported completion takes no further step: no callback of it is
\* delivered and it writes no metric again.
C14_DoneAfterStop ==
  [][/\ wg' < wg =>
          \E s \in Sessions :
            /\ spc[s] = "stopped" /\ spc'[s] = "returned"
            /\ stopCalls[s] = 1 /\ ~hung[s]
            /\ wg' = wg - 1
     /\ \A s \in Sessions :
          spc[s] = "returned" =>
            /\ spc'[s] = "returned"
            /\ \A lease \in Leases : ~OnBound(s, lease)
            /\ \A lease \in LeasePtrs : ~OnExpire(s, lease)
            /\ (s \in writers'[target[s]]) = (s \in writers[target[s]])]_vars

\* A session that received a callback has reported completion while the
\* process lives on and the callback budget is not used up.
C14_Witness ==
  /\ Alive
  /\ callbacks = 1
  /\ Len(spc) = 1
  /\ spc[1] = "returned"
  /\ wg = 0

\* C15: an on-expire callback with a nil lease changes neither the position of
\* any session, nor the Start()/Stop() calls made, nor the position of main,
\* nor the wait group, nor the context; a session leaves its wait on
\* ctx.Done() only when the context is cancelled, and then to call Stop();
\* and a waiting session of a live process can receive an on-bound callback.
C15_FailureNotFatal ==
  /\ [][\A s \in Sessions :
          /\ OnExpire(s, NilLease) =>
               UNCHANGED <<spc, startCalls, stopCalls, hung, mainpc, exitCode,
                           wg, ctxDone, cancelCalls>>
          /\ (spc[s] = "wait" /\ spc'[s] # "wait") =>
               (ctxDone /\ spc'[s] = "stopping")]_vars
  /\ [](\A s \in Sessions :
          (Alive /\ spc[s] = "wait" /\ callbacks < MaxCallbacks) =>
            \A lease \in Leases : ENABLED OnBound(s, lease))

\* One session has had a failed acquisition and is still waiting, uncancelled,
\* next to a session of another target that runs.
C15_Witness ==
  /\ Alive
  /\ ~ctxDone
  /\ callbacks = 1
  /\ Len(spc) = 2
  /\ target[1] # target[2]
  /\ spc[1] = "wait" /\ spc[2] = "wait"
  /\ stopCalls[1] = 0
  /\ target[1] \in DOMAIN delivered /\ delivered[target[1]].failed = 1

\* C16: the expiry gauge of a target is 0 while no on-bound callback has been
\* delivered for that target, and afterwards the Unix expiry of the lease of
\* the last on-bound callback delivered for it, whatever the target list.
C16_GaugeIsLastBound ==
  \A l \in DOMAIN dhcpLeaseExpiryTimestampSeconds :
    dhcpLeaseExpiryTimestampSeconds[l] =
      IF l \in DOMAIN lastBound THEN lastBound[l] ELSE 0

\* The callbacks delivered so far for label value l.
DeliveredTo(l) == IF l \in DOMAIN delivered THEN delivered[l] ELSE NoneDelivered
\* No series of the vector loses its place or goes down in the step.
NonDecreasing(vec, vecNext) ==
  \A l \in DOMAIN vec : l \in DOMAIN vecNext /\ vecNext[l] >= vec[l]
\* Every series the vector already has keeps its value in the step.
ValuesKept(vec, vecNext) ==
  \A l \in DOMAIN vec : l \in DOMAIN vecNext /\ vecNext[l] = vec[l]

\* C17: for each label value the acquired, expired and failed counters equal
\* the numbers of on-bound, on-expire(lease) and on-expire(nil) callbacks
\* delivered to the sessions of that label; no counter ever goes down, and the
\* Add(0) of a session's initialisation leaves every existing value as it is.
C17_CountersCountCallbacks ==
  /\ [](/\ \A l \in DOMAIN dhcpAcquiredLeasesTotal :
             dhcpAcquiredLeasesTotal[l] = DeliveredTo(l).bound
        /\ \A l \in DOMAIN dhcpExpiredLeasesTotal :
             dhcpExpiredLeasesTotal[l] = DeliveredTo(l).expired
        /\ \A l \in DOMAIN dhcpFailedLeasesTotal :
             dhcpFailedLeasesTotal[l] = DeliveredTo(l).failed
        /\ \A l \in DOMAIN delivered : SeriesExist(l))
  /\ [][/\ NonDecreasing(dhcpAcquiredLeasesTotal, dhcpAcquiredLeasesTotal')
        /\ NonDecreasing(dhcpExpiredLeasesTotal, dhcpExpiredLeasesTotal')
        /\ NonDecreasing(dhcpFailedLeasesTotal, dhcpFailedLeasesTotal')
        /\ \A s \in Sessions :
             /\ InitAcquired(s) =>
                  ValuesKept(dhcpAcquiredLeasesTotal, dhcpAcquiredLeasesTotal')
             /\ InitFailed(s) =>
                  ValuesKept(dhcpFailedLeasesTotal, dhcpFailedLeasesTotal')
             /\ InitExpired(s) =>
                  ValuesKept(dhcpExpiredLeasesTotal, dhcpExpiredLeasesTotal')]_vars

\* Two sessions of one address: the second has just run its Add(0) on the
\* acquired counter, which stands at 1 from the first session's callback.
C17_Witness ==
  /\ Len(spc) = 2
  /\ target[1] = target[2]
  /\ spc[2] = "expiry"
  /\ dhcpAcquiredLeasesTotal[target[1]] = 1
  /\ DeliveredTo(target[1]).bound = 1

\* The positions of runClient in program order.
Rank(pc) ==
  CASE pc = "acquired" -> 0 [] pc = "expiry" -> 1 [] pc = "failed" -> 2
    [] pc = "expired" -> 3 [] pc = "start" -> 4 [] pc = "wait" -> 5
    [] pc = "stopping" -> 6 [] pc = "stopped" -> 7 [] pc = "returned" -> 8

\* C18: every session goes through its positions in order without skipping
\* one: the four bindings, Start(), the wait, Stop(), Done.  Start() has been
\* called exactly once from the wait on and never before, Stop() exactly once
\* from the call of Stop() on and never before (so never on a client that was
\* not started), the bindings exist when Start() is called, and the wait is
\* left only under a cancelled context, also when the context was cancelled
\* before the goroutine ran.
C18_SessionOrder ==
  /\ [](\A s \in Sessions :
          /\ startCalls[s] = (IF Rank(spc[s]) >= 5 THEN 1 ELSE 0)
          /\ stopCalls[s] = (IF Rank(spc[s]) >= 6 THEN 1 ELSE 0)
          /\ stopCalls[s] <= startCalls[s]
          /\ Rank(spc[s]) >= 4 => SeriesExist(target[s]))
  /\ [][\A s \in Sessions :
          spc'[s] # spc[s] =>
            /\ Rank(spc'[s]) = Rank(spc[s]) + 1
            /\ Rank(spc[s]) = 5 => ctxDone]_vars

\* The context was cancelled long ago (the first session is over) and the
\* second session has only now created its bindings and is about to start
\* its client.
C18_Witness ==
  /\ ctxDone
  /\ Len(spc) = 2
  /\ target[1] # target[2]
  /\ spc[1] = "returned" /\ startCalls[1] = 1 /\ stopCalls[1] = 1
  /\ spc[2] = "start" /\ startCalls[2] = 0
  /\ SeriesExist(target[2])

====
